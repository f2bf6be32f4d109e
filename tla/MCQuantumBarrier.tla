--------------------------- MODULE MCQuantumBarrier ---------------------------
(***************************************************************************)
(* A barrier of two nodes that keeps two messages per node and quantum,    *)
(* called with ids 0 .. 2 (2 is out of bounds) and quanta 0 .. 2.          *)
(***************************************************************************)
EXTENDS QuantumBarrier

MCNodeIds == 0 .. 2
MCQuanta == 0 .. 2

Msg(vtime, src, seq) ==
    [vtime |-> vtime, src |-> src, dst |-> 9, seq |-> seq, body |-> 0]

\* An empty batch, one message, and three messages out of order, of which the
\* limit of two must drop the same one whatever their order.
MCBatches == {<<>>, <<Msg(1, 1, 0)>>, <<Msg(2, 0, 2), Msg(1, 0, 1), Msg(1, 0, 0)>>}
=============================================================================
