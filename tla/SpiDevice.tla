----------------------------- MODULE SpiDevice -----------------------------
(***************************************************************************)
(* The SPI bridge (comms/spi).  A transfer asks the peer and waits for the *)
(* answer with the BQL released, so that another vCPU may enter meanwhile; *)
(* a change of chip select is published by the thread of the transport and *)
(* takes another way.                                                      *)
(***************************************************************************)
EXTENDS Integers, Sequences, SequencesExt

CONSTANTS
    Vcpus,
    MaxTransfers, \* bound: transfers of a run
    MaxSelects    \* bound: changes of chip select

VARIABLES
    rust_state,   \* the backend: "none", "up"
    cs,           \* the level of chip select
    at,           \* vCPU |-> its transfer: [st, k, cs, ans]
    asked,        \* transfers begun
    sets,         \* history: levels set by spi_set_cs
    chan,         \* chip-select events in the publisher of the transport
    peer,         \* what the peer has seen: transfers and chip-select events
    results       \* transfer |-> what spi_transfer returned

pvars == <<rust_state, cs, at, asked, sets, chan, peer, results>>

NoTransfer == [st |-> "idle", k |-> 0, cs |-> FALSE, ans |-> 0]

PInit ==
    /\ rust_state = "none" /\ cs = FALSE /\ at = [v \in Vcpus |-> NoTransfer]
    /\ asked = 0 /\ sets = <<>> /\ chan = <<>> /\ peer = <<>> /\ results = <<>>

-----------------------------------------------------------------------------
\* spi_realize, with or without a transport; without one the device stays inert.
Realize ==
    /\ rust_state = "none" /\ asked = 0
    /\ rust_state' = "up"
    /\ UNCHANGED <<cs, at, asked, sets, chan, peer, results>>

\* spi_instance_finalize: QEMU finalizes the device when no vCPU is in it.
Finalize ==
    /\ rust_state = "up" /\ \A v \in Vcpus : at[v].st = "idle"
    /\ rust_state' = "none"
    /\ UNCHANGED <<cs, at, asked, sets, chan, peer, results>>

\* spi_set_cs; the publisher sends later.
SetCs(select) ==
    /\ Len(sets) < MaxSelects /\ select # cs
    /\ cs' = select
    /\ IF rust_state = "none"
       THEN UNCHANGED <<sets, chan>>
       ELSE sets' = Append(sets, select) /\ chan' = Append(chan, [k |-> 0, cs |-> select])
    /\ UNCHANGED <<rust_state, at, asked, peer, results>>
PublishCs ==
    /\ chan # <<>>
    /\ peer' = Append(peer, Head(chan)) /\ chan' = Tail(chan)
    /\ UNCHANGED <<rust_state, cs, at, asked, sets, results>>

\* spi_transfer: the header carries the chip select of this moment; then the BQL
\* is released.  Without a backend it returns 0 at once.
Header(k) == [st |-> "query", k |-> k, cs |-> cs, ans |-> 0]
Transfer(v) ==
    /\ at[v].st = "idle" /\ asked < MaxTransfers
    /\ asked' = asked + 1
    /\ IF rust_state = "none"
       THEN results' = Append(results, <<asked + 1, 0>>) /\ UNCHANGED at
       ELSE at' = [at EXCEPT ![v] = Header(asked + 1)] /\ UNCHANGED results
    /\ UNCHANGED <<rust_state, cs, sets, chan, peer>>

\* The peer answers (with a value that tells the transfer), or the query fails or
\* the answer is shorter than a word.
Query(v) ==
    /\ at[v].st = "query"
    /\ peer' = Append(peer, [k |-> at[v].k, cs |-> at[v].cs])
    /\ \E ans \in {at[v].k, 0} : at' = [at EXCEPT ![v].st = "relock", ![v].ans = ans]
    /\ UNCHANGED <<rust_state, cs, asked, sets, chan, results>>
TransferReturns(v) ==
    /\ at[v].st = "relock"
    /\ results' = Append(results, <<at[v].k, at[v].ans>>)
    /\ at' = [at EXCEPT ![v] = NoTransfer]
    /\ UNCHANGED <<rust_state, cs, asked, sets, chan, peer>>

PNext ==
    \/ Realize \/ Finalize \/ PublishCs \/ \E select \in BOOLEAN : SetCs(select)
    \/ \E v \in Vcpus : Transfer(v) \/ Query(v) \/ TransferReturns(v)

PSpec == PInit /\ [][PNext]_pvars

-----------------------------------------------------------------------------
Selections(s) == LET E == SelectSeq(s, LAMBDA e : e.k = 0) IN [i \in 1 .. Len(E) |-> E[i].cs]

\* Chip-select events reach the peer in the order of spi_set_cs, none lost, though
\* transfers overtake them; each transfer reaches it at most once, and returns the
\* answer to its own word or 0.
TransfersMatched ==
    /\ Selections(peer \o chan) = sets
    /\ \A i, j \in 1 .. Len(peer) : peer[i].k = peer[j].k /\ peer[i].k # 0 => i = j
    /\ \A i \in 1 .. Len(results) : results[i][2] \in {0, results[i][1]}
=============================================================================
