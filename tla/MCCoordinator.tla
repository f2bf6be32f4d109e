--------------------------- MODULE MCCoordinator ---------------------------
(***************************************************************************)
(* Instances of Coordinator.  Node 0 and the outsider 2 send on a wire,    *)
(* node 1 on CAN or on the radio; with the radio, node 0 attaches a        *)
(* unicast message to its DONEs.                                           *)
(***************************************************************************)
EXTENDS Coordinator

MCNodeIds == 0 .. 1
MCQuanta == 1 .. LastQuantum
MCBatches == {}

\* The world file: the machine has a peripheral of its own, 1 is quoted, and the
\* radio of a bystander is passed over.
Number(i) == [kind |-> "Integer", value |-> i]
Quoted(i) == [kind |-> "Digits", value |-> i]
Word == [kind |-> "String", value |-> 0]
MCWorld ==
    [topology |-> {[nodes |-> {Number(0), Quoted(1), Number(2)},
                    links |-> {[id |-> 1, protocol |-> "uart", nodes |-> {Number(0), Number(1)}]},
                    wireless |-> {Number(0), Number(1), Number(2), Word}]},
     peripherals |-> {Word}]

MCLinks == from_yaml(MCWorld).wire_links
MCInRange == {p \in {<<0, 1>>, <<1, 0>>, <<1, 2>>, <<2, 1>>} :
                 {p[1], p[2]} \subseteq from_yaml(MCWorld).positions}
MCRadio == {"rf"}
MCProtocol == <<"uart", "rf", "spi", "canfd", "canfd", "canfd">>

\* A wire and a radio whose frames all carry the same bytes, and a CAN bus on
\* which a later payload sorts before an earlier one.
WireAndCan == [i \in Ids |-> IF i = 1 THEN <<6, 5, 4>> ELSE <<1, 1>>]
WireAndRadio == [i \in Ids |-> IF i = 1 THEN <<2>> ELSE <<1>>]

Unicast == [vtime |-> 1, src |-> 0, dst |-> 1, seq |-> 0, body |-> 3]
NoAttachments == [n \in Nodes |-> {<<>>}]
MCAttachments == [NoAttachments EXCEPT ![0] = {<<Unicast>>}]

NoLinks == {}
OneLink == {<<0, 1>>}

With(d, p, e) == [delay |-> d, no_pdes |-> p, is_explicit |-> e]
Prompt == {With(0, FALSE, FALSE)}
PromptOrLate == {With(0, FALSE, FALSE), With(1, FALSE, FALSE)}
AnyRouting == {With(0, FALSE, FALSE), With(0, TRUE, FALSE), With(0, FALSE, TRUE)}
=============================================================================
