--------------------------- MODULE OrderedBarrier ---------------------------
(***************************************************************************)
(* The quantum barrier with the callers it has in a simulation: node n     *)
(* reports quantum 1, then 2, and so on, at most one quantum ahead of the  *)
(* barrier, and may report a quantum again.  What a node sends in a        *)
(* quantum is fixed by its firmware (workload); the order in which those   *)
(* messages reach the coordinator is not.                                  *)
(***************************************************************************)
EXTENDS QuantumBarrier

CONSTANT LastQuantum  \* bound: the nodes stop after this quantum
ASSUME OrderedAssumption == LastQuantum \in Nat \ {0}

VARIABLES
    workload,     \* workload[n][q]: the messages node n sends in quantum q
    next_report   \* next_report[n]: the quantum node n reports next

ovars == <<vars, workload, next_report>>

OTypeOK ==
    /\ TypeOK
    /\ workload \in [Nodes -> [1 .. LastQuantum -> Batches]]
    /\ next_report \in [Nodes -> 1 .. LastQuantum + 1]

\* main: QuantumBarrier::new followed by set_quantum(1).
OInit ==
    /\ current_quantum = 1
    /\ done_count = 0
    /\ done_nodes = {}
    /\ message_buffer = <<>>
    /\ next_quantum_done_nodes = {}
    /\ next_quantum_buffer = <<>>
    /\ ret = "None"
    /\ first = 1
    /\ accepted = {}
    /\ released = <<>>
    /\ workload \in [Nodes -> [1 .. LastQuantum -> Batches]]
    /\ next_report = [n \in Nodes |-> 1]

\* The orders in which the messages of a batch can arrive.
Arrivals(s) ==
    {[i \in DOMAIN s |-> s[p[i]]] :
        p \in {f \in [DOMAIN s -> DOMAIN s] :
                  \A i, j \in DOMAIN s : f[i] = f[j] => i = j}}

\* Node n finishes the quantum it is in.
Report(n) ==
    /\ next_report[n] <= LastQuantum
    /\ next_report[n] <= current_quantum + 1
    /\ \E msgs \in Arrivals(workload[n][next_report[n]]) :
           SubmitDone(n, next_report[n], msgs)
    /\ next_report' = [next_report EXCEPT ![n] = @ + 1]
    /\ UNCHANGED workload

\* Node n reports a quantum it has reported before.
Repeat(n) ==
    /\ \E q \in 1 .. LastQuantum :
          /\ q < next_report[n]
          /\ \E msgs \in Arrivals(workload[n][q]) : SubmitDone(n, q, msgs)
    /\ UNCHANGED <<workload, next_report>>

ONext == \E n \in Nodes : Report(n) \/ Repeat(n)

\* A node that has a quantum to run finishes it in the end.
OFairness == \A n \in Nodes : WF_ovars(Report(n))

OSpec == OInit /\ [][ONext]_ovars /\ OFairness

-----------------------------------------------------------------------------
\* The canonical batch of a quantum, computed from the workload alone.
CanonicalBatch(quantum) ==
    LET upTo[n \in 0 .. N] ==
            IF n = 0 THEN <<>>
                     ELSE upTo[n - 1] \o Admit(workload[n - 1][quantum])
    IN  Sort(upTo[N])

\* Two simulations of the same workload release the same batches: what the
\* barrier returns for a quantum is a function of the workload, not of the
\* interleaving of the nodes, of repeated DONEs, or of the order in which a
\* node's messages arrived.
Deterministic ==
    \A k \in DOMAIN released : released[k] = CanonicalBatch(k)

\* The barrier implements the abstract one with a slack of two: a node may be
\* done with the current and with the next quantum.
Abstract == INSTANCE RoundBarrier WITH
    Node <- Nodes,
    Slack <- 2,
    finished <- [n \in Nodes |-> next_report[n] - 1],
    opened <- Len(released)

\* The barrier opens a quantum exactly when its slowest node has finished the
\* one before it.
RefinesRoundBarrier == Abstract!Spec

\* Every quantum that the nodes run is released in the end.
AllQuantaReleased == <>(current_quantum = LastQuantum + 1)
=============================================================================
