-------------------------- MODULE MCDataTransport --------------------------
(***************************************************************************)
(* DataTransport with the three ways to connect two devices.               *)
(***************************************************************************)
EXTENDS DataTransport

MCSetups ==
    {<<"zenoh", "SafeSubscription">>, <<"unix", "SafeSubscription">>, <<"zenoh", "SafeSubscriber">>}
MCExtends == {<<"rx", "rx1">>}
=============================================================================
