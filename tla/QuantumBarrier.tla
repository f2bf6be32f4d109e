--------------------------- MODULE QuantumBarrier ---------------------------
(***************************************************************************)
(* The quantum barrier of the deterministic coordinator                    *)
(* (tools/deterministic_coordinator/src/barrier.rs).  Every operation runs *)
(* under the barrier's mutex from beginning to end, so it is one action.   *)
(*                                                                         *)
(* In this module the callers are unconstrained: any node id, inside or    *)
(* outside the barrier, reports any quantum with any batch, any number of  *)
(* times and in any order.  OrderedBarrier and Coordinator restrict them   *)
(* to what the nodes of a simulation do.                                   *)
(***************************************************************************)
EXTENDS CoordMessage

CONSTANTS
    N,            \* n_nodes: the barrier serves nodes 0 .. N-1
    MaxMessages,  \* max_messages_per_node
    NodeIds,      \* the node ids that callers pass
    Quanta,       \* the quantum numbers that callers pass
    Batches       \* the batches of messages that callers pass

ASSUME BarrierAssumption ==
    /\ N \in Nat \ {0}
    /\ MaxMessages \in Nat
    /\ NodeIds \subseteq Nat
    /\ Quanta \subseteq Nat
    /\ Batches \subseteq Seq(Message)

Nodes == 0 .. N - 1

VARIABLES
    current_quantum,          \* the AtomicU64 of QuantumBarrier
    done_count,               \* BarrierState, field by field; a Vec<bool>
    done_nodes,               \* indexed by node is the set of nodes it is
    message_buffer,           \* true for
    next_quantum_done_nodes,
    next_quantum_buffer,
    ret,                      \* what the last operation returned
    first,       \* history: the quantum this epoch of the barrier began with
    accepted,    \* history: the DONEs this epoch took, with what was admitted
    released     \* history: the batches this epoch returned, oldest first

state == <<current_quantum, done_count, done_nodes, message_buffer,
           next_quantum_done_nodes, next_quantum_buffer>>
history == <<first, accepted, released>>
vars == <<state, ret, history>>

\* Ok(None), Ok(Some(_)) and the errors of BarrierError.
Returns == {"None", "Some", "NodeOutOfBounds", "QuantumMismatch", "DuplicateDone"}

Done == [node : Nodes, quantum : Nat, batch : Seq(Message)]

\* Every variable holds a value of its Rust type, the done flags index real
\* nodes and done_count is the number of flags that are set.
TypeOK ==
    /\ current_quantum \in Nat
    /\ done_nodes \in SUBSET Nodes
    /\ done_count = Cardinality(done_nodes)
    /\ message_buffer \in Seq(Message)
    /\ next_quantum_done_nodes \in SUBSET Nodes
    /\ next_quantum_buffer \in Seq(Message)
    /\ ret \in Returns
    /\ first \in Nat
    /\ accepted \in SUBSET Done
    /\ released \in Seq(Seq(Message))

\* QuantumBarrier::new
Init ==
    /\ current_quantum = 0
    /\ done_count = 0
    /\ done_nodes = {}
    /\ message_buffer = <<>>
    /\ next_quantum_done_nodes = {}
    /\ next_quantum_buffer = <<>>
    /\ ret = "None"
    /\ first = 0
    /\ accepted = {}
    /\ released = <<>>

-----------------------------------------------------------------------------
\* Plausible slips in submit_done, used to test the properties.

\* Truncate first, sort what is left.
AdmitUnsorted(msgs) == Sort(Truncate(msgs, MaxMessages))

-----------------------------------------------------------------------------
\* Deterministic admission control: sort, then cut to the limit.
Admit(msgs) == Truncate(Sort(msgs), MaxMessages)

\* A DONE for a finished quantum is dropped, and its messages with it.  The
\* test comes before the bounds check.
SubmitStale(quantum) ==
    /\ quantum < current_quantum
    /\ ret' = "None"
    /\ UNCHANGED <<state, history>>

\* The three errors, in the order they are tested.
Reject(node, quantum) ==
    /\ quantum >= current_quantum
    /\ \/ node >= N /\ ret' = "NodeOutOfBounds"
       \/ /\ node < N
          /\ quantum > current_quantum + 1
          /\ ret' = "QuantumMismatch"
       \/ /\ node < N
          /\ \/ quantum = current_quantum + 1 /\ node \in next_quantum_done_nodes
             \/ quantum = current_quantum /\ node \in done_nodes
          /\ ret' = "DuplicateDone"
    /\ UNCHANGED <<state, history>>

\* History: the DONEs taken, and one more.
WithDone(dones, node, quantum, batch) ==
    dones \cup {[node |-> node, quantum |-> quantum, batch |-> batch]}

\* The actions below are given the batch that has passed admission control.

\* (A plausible slip: the messages of the next quantum join the current ones.)
LookaheadIntoCurrent(node, quantum, batch) ==
    /\ node < N
    /\ quantum = current_quantum + 1
    /\ node \notin next_quantum_done_nodes
    /\ next_quantum_done_nodes' = next_quantum_done_nodes \cup {node}
    /\ message_buffer' = message_buffer \o batch
    /\ ret' = "None"
    /\ accepted' = WithDone(accepted, node, quantum, batch)
    /\ UNCHANGED <<current_quantum, done_count, done_nodes, next_quantum_buffer,
                   first, released>>

\* A DONE for the next quantum is kept aside.
SubmitLookahead(node, quantum, batch) ==
    /\ node < N
    /\ quantum = current_quantum + 1
    /\ node \notin next_quantum_done_nodes
    /\ next_quantum_done_nodes' = next_quantum_done_nodes \cup {node}
    /\ next_quantum_buffer' = next_quantum_buffer \o batch
    /\ ret' = "None"
    /\ accepted' = WithDone(accepted, node, quantum, batch)
    /\ UNCHANGED <<current_quantum, done_count, done_nodes, message_buffer,
                   first, released>>

\* A DONE for the current quantum that leaves other nodes to wait for.
SubmitPartial(node, quantum, batch) ==
    /\ node < N
    /\ quantum = current_quantum
    /\ node \notin done_nodes
    /\ done_count + 1 # N
    /\ done_nodes' = done_nodes \cup {node}
    /\ message_buffer' = message_buffer \o batch
    /\ done_count' = done_count + 1
    /\ ret' = "None"
    /\ accepted' = WithDone(accepted, node, quantum, batch)
    /\ UNCHANGED <<current_quantum, next_quantum_done_nodes,
                   next_quantum_buffer, first, released>>

\* (Two plausible slips: the promotion does not recompute done_count from the
\* promoted flags; the second DONE of a node is counted again.)
ReleaseWithoutRecount(node, quantum, batch) ==
    /\ node < N
    /\ quantum = current_quantum
    /\ node \notin done_nodes
    /\ done_count + 1 = N
    /\ released' = Append(released, Sort(message_buffer \o batch))
    /\ current_quantum' = current_quantum + 1
    /\ message_buffer' = next_quantum_buffer
    /\ done_nodes' = next_quantum_done_nodes
    /\ done_count' = 0
    /\ next_quantum_buffer' = <<>>
    /\ next_quantum_done_nodes' = {}
    /\ ret' = "Some"
    /\ accepted' = WithDone(accepted, node, quantum, batch)
    /\ UNCHANGED first

ReleaseOnDuplicate(node, quantum, batch) ==
    /\ node < N
    /\ quantum = current_quantum
    /\ done_count + 1 = N
    /\ released' = Append(released, Sort(message_buffer \o batch))
    /\ current_quantum' = current_quantum + 1
    /\ message_buffer' = next_quantum_buffer
    /\ done_nodes' = next_quantum_done_nodes
    /\ done_count' = Cardinality(next_quantum_done_nodes)
    /\ next_quantum_buffer' = <<>>
    /\ next_quantum_done_nodes' = {}
    /\ ret' = "Some"
    /\ accepted' = WithDone(accepted, node, quantum, batch)
    /\ UNCHANGED first

\* The last DONE of the current quantum: return everything in canonical order
\* and promote what was kept aside.
SubmitRelease(node, quantum, batch) ==
    /\ node < N
    /\ quantum = current_quantum
    /\ node \notin done_nodes
    /\ done_count + 1 = N
    /\ released' = Append(released, Sort(message_buffer \o batch))
    /\ current_quantum' = current_quantum + 1
    /\ message_buffer' = next_quantum_buffer
    /\ done_nodes' = next_quantum_done_nodes
    /\ done_count' = Cardinality(next_quantum_done_nodes)
    /\ next_quantum_buffer' = <<>>
    /\ next_quantum_done_nodes' = {}
    /\ ret' = "Some"
    /\ accepted' = WithDone(accepted, node, quantum, batch)
    /\ UNCHANGED first

\* QuantumBarrier::submit_done; it never looks at its expected_quantum.  The
\* batch is what the admission control leaves of the messages.
SubmitDone(node, quantum, msgs) ==
    \/ SubmitStale(quantum)
    \/ Reject(node, quantum)
    \/ \E batch \in {Admit(msgs)} :
          \/ SubmitLookahead(node, quantum, batch)
          \/ SubmitPartial(node, quantum, batch)
          \/ SubmitRelease(node, quantum, batch)

\* QuantumBarrier::set_quantum stores the counter and nothing else.  Its one
\* caller, main, calls it on a barrier that no DONE has reached.
SetQuantum(quantum) ==
    /\ accepted = {}
    /\ released = <<>>
    /\ current_quantum' = quantum
    /\ first' = quantum
    /\ UNCHANGED <<done_count, done_nodes, message_buffer,
                   next_quantum_done_nodes, next_quantum_buffer, ret,
                   accepted, released>>

\* QuantumBarrier::reset begins a new epoch at quantum 0.
Reset ==
    /\ current_quantum' = 0
    /\ done_count' = 0
    /\ done_nodes' = {}
    /\ message_buffer' = <<>>
    /\ next_quantum_done_nodes' = {}
    /\ next_quantum_buffer' = <<>>
    /\ first' = 0
    /\ accepted' = {}
    /\ released' = <<>>
    /\ UNCHANGED ret

Next ==
    \/ \E node \in NodeIds, quantum \in Quanta, msgs \in Batches :
           SubmitDone(node, quantum, msgs)
    \/ \E quantum \in Quanta : SetQuantum(quantum)
    \/ Reset

Spec == Init /\ [][Next]_vars

-----------------------------------------------------------------------------
\* Among a set of DONEs, those for the quantum, the nodes they came from and
\* the messages they brought.
DonesFor(dones, quantum) == {d \in dones : d.quantum = quantum}
Reporters(dones, quantum) == {d.node : d \in DonesFor(dones, quantum)}
Contents(dones, quantum) ==
    UNION {Elements(d.batch) : d \in DonesFor(dones, quantum)}

\* The batch taken from the node for the quantum.
BatchOf(node, quantum) ==
    (CHOOSE a \in accepted : a.node = node /\ a.quantum = quantum).batch

\* What a sequential coordinator would collect, asking node 0, node 1, ... in
\* turn: the reference the concurrent barrier is compared with.
Collected(quantum) ==
    LET upTo[n \in 0 .. N] ==
            IF n = 0 THEN <<>>
                     ELSE upTo[n - 1] \o BatchOf(n - 1, quantum)
    IN  upTo[N]

\* Whatever the callers do, the k-th batch submit_done returns is that of the
\* k-th quantum of the epoch, every node has reported that quantum, and the
\* batch is the one a sequential coordinator would compute: the order in which
\* the DONEs arrived, the stale, duplicate and rejected ones among them, and
\* the lookahead leave no trace in it.
ReleaseIsCanonical ==
    /\ current_quantum = first + Len(released)
    /\ \A k \in DOMAIN released :
          LET quantum == first + k - 1
          IN  /\ Reporters(accepted, quantum) = Nodes
              /\ released[k] = Sort(Collected(quantum))

\* The part of ReleaseIsCanonical that does not compute the reference: each
\* returned batch is in canonical order, its quantum was reported by every
\* node, a node is counted once per quantum, and its messages are exactly
\* those the admission control let through.
ReleaseIsComplete ==
    /\ current_quantum = first + Len(released)
    /\ \A a, b \in accepted :
          a.node = b.node /\ a.quantum = b.quantum => a = b
    /\ \A k \in DOMAIN released :
          LET quantum == first + k - 1
          IN  /\ Reporters(accepted, quantum) = Nodes
              /\ Sorted(released[k])
              /\ Elements(released[k]) = Contents(accepted, quantum)

\* Nothing is lost or mixed up inside the barrier: its two buffers and its two
\* sets of flags hold what was taken for the current and for the next quantum,
\* and nothing was taken for a quantum beyond those.
BuffersHoldAccepted ==
    /\ done_nodes = Reporters(accepted, current_quantum)
    /\ next_quantum_done_nodes = Reporters(accepted, current_quantum + 1)
    /\ Elements(message_buffer) = Contents(accepted, current_quantum)
    /\ Elements(next_quantum_buffer) = Contents(accepted, current_quantum + 1)
    /\ \A d \in accepted : d.quantum \in first .. current_quantum + 1

\* A quantum that every node has reported does not stay unreleased: the
\* barrier is never left waiting for a DONE that cannot come any more, since
\* each node's DONE for it would be a duplicate.
NeverWedged == Reporters(accepted, current_quantum) # Nodes

=============================================================================
