-------------------------- MODULE MCOrderedBarrier --------------------------
(***************************************************************************)
(* Three quanta of two nodes under a limit of one message per node.        *)
(***************************************************************************)
EXTENDS OrderedBarrier

Msg(vtime, src, seq) ==
    [vtime |-> vtime, src |-> src, dst |-> 9, seq |-> seq, body |-> 0]

\* One message, and a burst of two in the wrong order, of which the limit
\* keeps the one that ties with the first batch on everything but its source.
MCBatches == {<<Msg(1, 0, 0)>>, <<Msg(2, 1, 1), Msg(1, 1, 0)>>}

MCNodeIds == 0 .. 1
MCQuanta == 1 .. 4
=============================================================================
