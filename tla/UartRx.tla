------------------------------- MODULE UartRx -------------------------------
(***************************************************************************)
(* The receive path of the UART character device (chardev): packets wait   *)
(* in a channel and, sorted, in a heap until their time; then their bytes  *)
(* go to a backlog, and from there one by one, at the baud rate, to the    *)
(* frontend of the guest, which has room for a few and says when it has    *)
(* read one.  The option max-backlog bounds the bytes that wait for their  *)
(* time; nothing bounds the backlog they go to then.  Everything runs with *)
(* the big lock: a callback is one step.                                   *)
(***************************************************************************)
EXTENDS Integers, Sequences, FiniteSets, FiniteSetsExt, SequencesExt

CONSTANTS
    Packets,     \* packets of other nodes: [v |-> delivery time, s |-> sequence, n |-> bytes]
    MaxTime,     \* bound of the virtual clock
    MaxBacklog,  \* the option max-backlog, in bytes
    ChanSize,    \* packets the channel holds (1024 in the code)
    BaudDelays,  \* times for one byte the guest may select
    Burst,       \* drains in one timer callback (1000 in the code) ...
    AcceptBurst, \* ... and in one accept_input (10 in the code)
    Room         \* bytes the frontend holds

VARIABLES
    chr,            \* "new", "open", "failed", "closed"
    now, onway,     \* the virtual clock; packets that have not arrived
    chan, heap,     \* rx_receiver and local_heap
    backlog,        \* bytes for the guest
    backlog_size, dropped,
    baud_delay,
    rx_timer, rx_baud_timer, \* deadlines on the virtual clock
    kick,           \* kick_timer, on the real-time clock, is armed
    fe,             \* bytes in the frontend
    intime,         \* history: packets put into the heap before their time
    got             \* history: bytes the guest read

uvars == <<chr, now, onway, chan, heap, backlog, backlog_size, dropped, baud_delay, rx_timer,
           rx_baud_timer, kick, fe, intime, got>>

Never == MaxTime + Max(BaudDelays \cup {1}) + 1 \* later than any deadline
Bytes(p) == [i \in 1 .. p.n |-> [v |-> p.v, s |-> p.s, i |-> i]]
Size(S) == FoldSet(LAMBDA p, acc : p.n + acc, 0, S)

UInit ==
    /\ chr = "new" /\ now = 0 /\ onway = Packets
    /\ chan = {} /\ heap = {} /\ backlog = <<>> /\ backlog_size = 0 /\ dropped = 0
    /\ baud_delay \in BaudDelays
    /\ rx_timer = Never /\ rx_baud_timer = Never /\ kick = FALSE
    /\ fe = <<>> /\ intime = {} /\ got = <<>>

-----------------------------------------------------------------------------
\* Plausible slips, used to test the properties.

\* A packet is discounted when its last byte is read, which no one notices.
DiscountLate(S) == 0

\* Of two packets of one time the newer one comes first.
NewestPacketBefore(p, q) == p.v < q.v \/ (p.v = q.v /\ p.s > q.s)

\* The baud timer is left alone when the frontend asks for more.
ResumeNever == UNCHANGED rx_baud_timer

-----------------------------------------------------------------------------
\* virtmcu_chr_open with the options of virtmcu_chr_parse, and virtmcu_chr_finalize
\* (its thread is in TxThread).
Open ==
    /\ chr = "new"
    /\ chr' \in {"open", "failed"}
    /\ UNCHANGED <<now, onway, chan, heap, backlog, backlog_size, dropped, baud_delay, rx_timer,
                   rx_baud_timer, kick, fe, intime, got>>
Close ==
    /\ chr = "open"
    /\ chr' = "closed"
    /\ rx_timer' = Never /\ rx_baud_timer' = Never /\ kick' = FALSE
    /\ chan' = {} /\ heap' = {} /\ backlog' = <<>> /\ backlog_size' = 0
    /\ UNCHANGED <<now, onway, dropped, baud_delay, fe, intime, got>>

\* The callback of the subscription: admission by bytes and by room in the channel,
\* then a kick.
OnPacket(p) ==
    /\ chr = "open" /\ p \in onway
    /\ onway' = onway \ {p}
    /\ IF backlog_size + p.n > MaxBacklog \/ Cardinality(chan) = ChanSize
       THEN dropped' = dropped + 1 /\ UNCHANGED <<chan, backlog_size, kick>>
       ELSE /\ chan' = chan \cup {p} /\ backlog_size' = backlog_size + p.n /\ kick' = TRUE
            /\ UNCHANGED dropped
    /\ UNCHANGED <<chr, now, heap, backlog, baud_delay, rx_timer, rx_baud_timer, fe, intime, got>>

\* The order of the heap.
PacketBefore(p, q) == p.v < q.v \/ (p.v = q.v /\ p.s < q.s)

\* Packets leave the count when their bytes go to the backlog.
Discount(S) == Size(S)

\* A packet without a time is due at once.
Stamped == {IF p.v = 0 THEN [p EXCEPT !.v = now] ELSE p : p \in chan}

\* drain_backlog, as often as its caller repeats it: the channel goes to the heap
\* and the first due packets go to the backlog, which starts the baud timer when
\* it was empty.  More(limit): there are due packets left.
Due == SetToSortSeq({p \in heap \cup Stamped : p.v <= now}, PacketBefore)
More(limit) == Len(Due) > limit
DrainBacklog(limit) ==
    LET moved == SubSeq(Due, 1, Min({limit, Len(Due)}))
        bytes == FlattenSeq([i \in DOMAIN moved |-> Bytes(moved[i])])
    IN  /\ chan' = {}
        /\ heap' = (heap \cup Stamped) \ ToSet(moved)
        /\ intime' = intime \cup {p \in Stamped : p.v > now}
        /\ backlog' = backlog \o bytes
        /\ backlog_size' = backlog_size - Discount(ToSet(moved))

\* The end of rx_timer_cb and of accept_input: the next wakeup.
Reschedule(limit, pause) ==
    rx_timer' = IF More(limit) THEN now + pause
                ELSE IF heap' # {} THEN Min({p.v : p \in heap'})
                ELSE IF rx_timer <= now THEN Never ELSE rx_timer

\* virtmcu_chr_rx_timer_cb, from its own timer or from the kick.
RxTimer ==
    /\ chr = "open" /\ (kick \/ rx_timer <= now)
    /\ DrainBacklog(Burst)
    /\ Reschedule(Burst, 1)
    /\ rx_baud_timer' = IF backlog = <<>> /\ backlog' # <<>> THEN now + baud_delay ELSE rx_baud_timer
    /\ kick' = FALSE
    /\ UNCHANGED <<chr, now, onway, dropped, baud_delay, fe, got>>

\* virtmcu_chr_rx_baud_timer_cb: one byte, if the frontend takes it.
RxBaudTimer ==
    /\ chr = "open" /\ rx_baud_timer <= now
    /\ IF backlog # <<>> /\ Len(fe) < Room
       THEN /\ fe' = Append(fe, Head(backlog)) /\ backlog' = Tail(backlog)
            /\ rx_baud_timer' = IF Tail(backlog) # <<>> THEN now + baud_delay ELSE Never
       ELSE rx_baud_timer' = Never /\ UNCHANGED <<fe, backlog>>
    /\ UNCHANGED <<chr, now, onway, chan, heap, backlog_size, dropped, baud_delay, rx_timer, kick,
                   intime, got>>

\* A non-empty backlog goes on at once when the frontend has room again.
Resume == rx_baud_timer' = IF backlog' # <<>> THEN now ELSE rx_baud_timer

\* The guest reads a byte, and the frontend calls virtmcu_chr_accept_input.
AcceptInput ==
    /\ chr = "open" /\ fe # <<>>
    /\ fe' = Tail(fe) /\ got' = Append(got, Head(fe))
    /\ DrainBacklog(AcceptBurst)
    /\ Resume
    /\ Reschedule(AcceptBurst, 1)
    /\ UNCHANGED <<chr, now, onway, dropped, baud_delay, kick>>

\* virtmcu_chr_ioctl sets the baud rate.
Ioctl(d) ==
    /\ chr = "open" /\ d # baud_delay
    /\ baud_delay' = d
    /\ UNCHANGED <<chr, now, onway, chan, heap, backlog, backlog_size, dropped, rx_timer,
                   rx_baud_timer, kick, fe, intime, got>>

\* The virtual clock; the kick, on the real-time clock, may be late.
Tick ==
    /\ now < MaxTime /\ rx_timer > now /\ rx_baud_timer > now
    /\ now' = now + 1
    /\ UNCHANGED <<chr, onway, chan, heap, backlog, backlog_size, dropped, baud_delay, rx_timer,
                   rx_baud_timer, kick, fe, intime, got>>

UNext ==
    \/ Open \/ Close \/ RxTimer \/ RxBaudTimer \/ AcceptInput \/ Tick
    \/ \E p \in Packets : OnPacket(p)
    \/ \E d \in BaudDelays : Ioctl(d)

USpec == UInit /\ [][UNext]_uvars

-----------------------------------------------------------------------------
\* The bytes of packets that were there before their time reach the guest in
\* the order of time, sequence number and place in the packet, whatever path
\* (timer, kick, accept_input) moved them, and none twice.
BytesInOrder ==
    LET all == got \o fe \o backlog
        InTime(b) == \E p \in intime : p.v = b.v /\ p.s = b.s
    IN  \A i, j \in DOMAIN all :
            i < j => /\ all[i] # all[j]
                     /\ InTime(all[i]) /\ InTime(all[j]) =>
                            \/ all[i].v < all[j].v
                            \/ all[i].v = all[j].v /\ all[i].s < all[j].s
                            \/ all[i].v = all[j].v /\ all[i].s = all[j].s /\ all[i].i < all[j].i

\* backlog_size is what the channel and the heap hold, to the byte, and stays
\* within max-backlog; the bytes that drain_backlog has moved on are in neither.
\* And a packet that arrived is refused and counted, waits, or has gone to the
\* guest's side with all its bytes: whatever becomes full, none is lost silently.
\* (Sequence numbers tell the packets apart.)
SizeExact ==
    LET gone == {b.s : b \in ToSet(got \o fe \o backlog)}
    IN  /\ backlog_size = Size(chan \cup heap) /\ backlog_size <= MaxBacklog
        /\ chr = "open" =>
              /\ Cardinality(Packets \ onway) = dropped + Cardinality(chan \cup heap) + Cardinality(gone)
              /\ Len(got \o fe \o backlog) = Size({p \in Packets : p.s \in gone})

\* Nothing waits without someone to move it on: packets in the channel have
\* the kick, packets in the heap a timer that is not later than the first of
\* them, bytes the baud timer or a frontend that will ask for more.
NoByteForgotten ==
    chr = "open" =>
        /\ chan # {} => kick
        /\ heap # {} => rx_timer <= Max({now + 1, Min({p.v : p \in heap})})
        /\ backlog # <<>> => rx_baud_timer # Never \/ fe # <<>>
=============================================================================
