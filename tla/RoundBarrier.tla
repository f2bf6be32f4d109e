---------------------------- MODULE RoundBarrier ----------------------------
(***************************************************************************)
(* What a quantum barrier promises its nodes, whatever it stores to keep   *)
(* the promise: nodes finish quanta one after the other, a quantum opens   *)
(* when the slowest node has finished the one before, and no node is more  *)
(* than Slack quanta ahead of what has opened.                             *)
(***************************************************************************)
EXTENDS Naturals

CONSTANTS Node, Slack

VARIABLES
    finished,  \* finished[n]: how many quanta node n has finished
    opened     \* how many quanta the barrier has completed

TypeOK == finished \in [Node -> Nat] /\ opened \in Nat

Init == finished = [n \in Node |-> 0] /\ opened = 0

\* The barrier has completed as many quanta as the slowest node has finished.
IsSlowest(k, f) == (\E n \in Node : f[n] = k) /\ (\A n \in Node : k <= f[n])

Finish(n) ==
    /\ finished[n] < opened + Slack
    /\ finished' = [finished EXCEPT ![n] = @ + 1]
    /\ opened' \in {opened, opened + 1}
    /\ IsSlowest(opened', finished')

Next == \E n \in Node : Finish(n)

Spec == Init /\ [][Next]_<<finished, opened>>
=============================================================================
