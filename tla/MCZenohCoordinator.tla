------------------------ MODULE MCZenohCoordinator ------------------------
EXTENDS ZenohCoordinator

MCModes == {[pdes |-> TRUE, explicit |-> FALSE, wireless |-> FALSE],
            [pdes |-> TRUE, explicit |-> TRUE, wireless |-> TRUE],
            [pdes |-> FALSE, explicit |-> TRUE, wireless |-> FALSE]}
MCWireLinks == {[protocol |-> "eth", nodes |-> {0, 1}], [protocol |-> "spi", nodes |-> {0, 1}]}
MCPlaces == {"here", "there"}
MCWorldPlace == [n \in RelayNodes |-> "there"]
All == MCPlaces \X MCPlaces
MCRange == {<<p, p>> : p \in MCPlaces}
MCLinkUpdates == {<<<<0, 1>>, [delay |-> 1, drop |-> TRUE, jitter |-> 1]>>}
MCMaxFrames == [n \in RelayNodes |-> 2 - n]
=============================================================================
