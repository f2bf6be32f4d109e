------------------------------- MODULE FlexRay -------------------------------
(***************************************************************************)
(* The FlexRay controller.  Frames are brought by a thread of the          *)
(* transport, which puts them into a bounded channel and kicks the receive *)
(* timer without the big lock; the timer callback takes them out one by    *)
(* one, and keeps one that is not due, behind which the others wait.  The  *)
(* cycle timer sends the configured slots of the message RAM, which the    *)
(* guest fills through the input buffer WRDS.                              *)
(*                                                                         *)
(* Finalize frees the state, but rust_state keeps pointing to it, and the  *)
(* subscription lives on in the transport with its own reference to the    *)
(* receive timer: what the timer then does is recorded in `dangling`.      *)
(***************************************************************************)
EXTENDS Integers, Sequences, FiniteSets, SequencesExt

CONSTANTS
    FlexFrames, \* frames of other nodes: [v |-> time, id |-> frame id, w |-> first word]
    Slots,      \* slots of the message RAM: 0 .. n (0 .. 127 in the code)
    Ids,        \* frame ids the guest configures; 0 is none
    Span,       \* slots that a transfer covers (256 bytes at a stride of 64: 4 in the code)
    FlexChan,   \* capacity of the channel (100 in the code)
    MaxTime, Cycle, \* bound of the virtual clock; length of a cycle in ticks
    MaxTransfers    \* bound: transfers of the guest

VARIABLES
    controller,      \* rust_state: "new", "up", "null" after a failed realize, "freed"
    now, onway,
    sub,             \* the transport's thread: <<>>, <<"send", f>> or <<"kick">>
    chan, pending,   \* rx_receiver; pending_packet, a sequence of at most one
    rx_timer,        \* deadline of rx_timer; 0 is the kick
    rxcb,            \* flexray_rx_timer_cb is running
    hdr, ram, wrds,  \* frame_id and data of each slot; first word of the input buffer
    wrhs3,           \* a frame has been received
    cycle, cycle_timer,
    dangling,        \* history: the receive timer fired on freed state
    transfers,
    sent,            \* history: what the last cycle sent, per slot
    came, taken      \* history: frames in the order they were put into the channel; those handled

xvars == <<controller, now, onway, sub, chan, pending, rx_timer, rxcb, hdr, ram, wrds, wrhs3,
           cycle, cycle_timer, dangling, transfers, sent, came, taken>>

Never == MaxTime + Cycle + 1 \* later than any deadline

XInit ==
    /\ controller = "new" /\ now = 1 /\ onway = FlexFrames /\ sub = <<>>
    /\ chan = <<>> /\ pending = <<>> /\ rx_timer = Never /\ rxcb = FALSE
    /\ hdr = [s \in Slots |-> 0] /\ ram = [s \in Slots |-> 0] /\ wrds = 0 /\ wrhs3 = FALSE
    /\ cycle = 0 /\ cycle_timer = Never /\ dangling = FALSE
    /\ transfers = 0 /\ sent = {} /\ came = <<>> /\ taken = <<>>

-----------------------------------------------------------------------------
\* Plausible slips, used to test the properties.

\* The callback keeps the frame and sets no timer for it.
KeepUnarmed(f) == pending' = <<f>> /\ UNCHANGED rx_timer

\* A frame that is kept goes to the end of the channel.
NextFrameFromChannel == IF chan # <<>> THEN <<Head(chan), Tail(chan), pending>> ELSE <<pending[1], <<>>, <<>>>>

-----------------------------------------------------------------------------
\* flexray_realize, with flexray_init_internal: without a transport from the hub
\* there is no state.
Realize ==
    /\ controller = "new"
    /\ \/ controller' = "up" /\ cycle_timer' = now + Cycle
       \/ controller' = "null" /\ UNCHANGED cycle_timer
    /\ UNCHANGED <<now, onway, sub, chan, pending, rx_timer, rxcb, hdr, ram, wrds, wrhs3, cycle,
                   dangling, transfers, sent, came, taken>>

\* flexray_instance_finalize: the state is freed, with the receiving end of the
\* channel and the cycle timer; the subscription and the receive timer are not.
Finalize ==
    /\ controller = "up" /\ ~rxcb
    /\ controller' = "freed"
    /\ chan' = <<>> /\ pending' = <<>> /\ cycle_timer' = Never
    /\ UNCHANGED <<now, onway, sub, rx_timer, rxcb, hdr, ram, wrds, wrhs3, cycle, dangling, transfers,
                   sent, came, taken>>

\* The callback of the subscription, in the thread of the transport: it waits for
\* room in the channel, then kicks the timer.  Without the receiving end the
\* frame is lost, and the timer is kicked all the same.
OnFrame(f) ==
    /\ controller \in {"up", "freed"} /\ f \in onway /\ sub = <<>>
    /\ onway' = onway \ {f} /\ sub' = <<"send", f>>
    /\ UNCHANGED <<controller, now, chan, pending, rx_timer, rxcb, hdr, ram, wrds, wrhs3, cycle,
                   cycle_timer, dangling, transfers, sent, came, taken>>
Send ==
    /\ sub # <<>> /\ sub[1] = "send"
    /\ \/ /\ controller = "up" /\ Len(chan) < FlexChan
          /\ chan' = Append(chan, sub[2]) /\ came' = Append(came, sub[2])
       \/ controller = "freed" /\ UNCHANGED <<chan, came>>
    /\ sub' = <<"kick">>
    /\ UNCHANGED <<controller, now, onway, pending, rx_timer, rxcb, hdr, ram, wrds, wrhs3, cycle,
                   cycle_timer, dangling, transfers, sent, taken>>
Kick ==
    /\ sub # <<>> /\ sub[1] = "kick"
    /\ rx_timer' = 0 /\ sub' = <<>>
    /\ UNCHANGED <<controller, now, onway, chan, pending, rxcb, hdr, ram, wrds, wrhs3, cycle,
                   cycle_timer, dangling, transfers, sent, came, taken>>

\* flexray_rx_timer_cb: the timer fires, then one frame per step; the thread of
\* the transport runs in between.  On freed state its outcome is undefined.
RxTimer ==
    /\ ~rxcb /\ rx_timer <= now /\ rx_timer' = Never
    /\ \/ controller = "up" /\ rxcb' = TRUE /\ UNCHANGED dangling
       \/ controller = "freed" /\ dangling' = TRUE /\ UNCHANGED rxcb
    /\ UNCHANGED <<controller, now, onway, sub, chan, pending, hdr, ram, wrds, wrhs3, cycle,
                   cycle_timer, transfers, sent, came, taken>>
Keep(f) == pending' = <<f>> /\ rx_timer' = f.v
NextFrame == IF pending # <<>> THEN <<pending[1], chan, <<>>>> ELSE <<Head(chan), Tail(chan), <<>>>>
Receive ==
    /\ rxcb
    /\ IF pending = <<>> /\ chan = <<>>
       THEN rxcb' = FALSE /\ UNCHANGED <<chan, pending, rx_timer, wrds, wrhs3, taken>>
       ELSE LET f == NextFrame[1]
                matched == \E s \in Slots : hdr[s] = f.id
            IN  /\ chan' = NextFrame[2]
                /\ IF f.v <= now
                   THEN /\ wrds' = IF matched THEN f.w ELSE wrds
                        /\ wrhs3' = (wrhs3 \/ matched)
                        /\ pending' = NextFrame[3]
                        /\ taken' = Append(taken, f)
                        /\ UNCHANGED <<rxcb, rx_timer>>
                   ELSE rxcb' = FALSE /\ Keep(f) /\ UNCHANGED <<wrds, wrhs3, taken>>
    /\ UNCHANGED <<controller, now, onway, sub, hdr, ram, cycle, cycle_timer, dangling, transfers, sent,
                   came>>

\* flexray_write: the controller is enabled, which restarts the cycle; WRHS3, in
\* which the guest clears the bit of a received frame; WRDS; IBCR, which copies
\* the input buffer to a slot and the ones behind it.
Enable ==
    /\ controller = "up" /\ ~rxcb
    /\ cycle_timer' = now + Cycle
    /\ UNCHANGED <<controller, now, onway, sub, chan, pending, rx_timer, rxcb, hdr, ram, wrds, wrhs3,
                   cycle, dangling, transfers, sent, came, taken>>
WriteWrhs3(b) ==
    /\ controller = "up" /\ ~rxcb
    /\ wrhs3' = b
    /\ UNCHANGED <<controller, now, onway, sub, chan, pending, rx_timer, rxcb, hdr, ram, wrds, cycle,
                   cycle_timer, dangling, transfers, sent, came, taken>>
WriteWrds(w) ==
    /\ controller = "up" /\ ~rxcb
    /\ wrds' = w
    /\ UNCHANGED <<controller, now, onway, sub, chan, pending, rx_timer, rxcb, hdr, ram, wrhs3, cycle,
                   cycle_timer, dangling, transfers, sent, came, taken>>
Transfer(slot, id) ==
    /\ controller = "up" /\ ~rxcb /\ transfers < MaxTransfers
    /\ hdr' = [hdr EXCEPT ![slot] = id]
    /\ ram' = [s \in Slots |-> IF s \in slot .. slot + Span - 1 THEN wrds ELSE ram[s]]
    /\ transfers' = transfers + 1
    /\ UNCHANGED <<controller, now, onway, sub, chan, pending, rx_timer, rxcb, wrds, wrhs3, cycle,
                   cycle_timer, dangling, sent, came, taken>>

\* flexray_cycle_timer_cb, flexray_send_frame.
CycleTimer ==
    /\ controller = "up" /\ ~rxcb /\ cycle_timer <= now
    /\ cycle' = cycle + 1
    /\ sent' = {[id |-> hdr[s], w |-> ram[s], cycle |-> cycle + 1] : s \in {t \in Slots : hdr[t] # 0}}
    /\ cycle_timer' = now + Cycle
    /\ UNCHANGED <<controller, now, onway, sub, chan, pending, rx_timer, rxcb, hdr, ram, wrds, wrhs3,
                   dangling, transfers, came, taken>>

Tick ==
    /\ now < MaxTime /\ rx_timer > now /\ cycle_timer > now /\ ~rxcb
    /\ now' = now + 1
    /\ UNCHANGED <<controller, onway, sub, chan, pending, rx_timer, rxcb, hdr, ram, wrds, wrhs3,
                   cycle, cycle_timer, dangling, transfers, sent, came, taken>>

XNext ==
    \/ Realize \/ Finalize \/ Send \/ Kick \/ RxTimer \/ Receive \/ Enable \/ CycleTimer \/ Tick
    \/ \E f \in FlexFrames : OnFrame(f)
    \/ WriteWrds(9)
    \/ \E b \in BOOLEAN : WriteWrhs3(b)
    \/ \E slot \in Slots, id \in Ids : Transfer(slot, id)

XSpec == XInit /\ [][XNext]_xvars

-----------------------------------------------------------------------------
\* No frame is left without a wakeup, although the thread of the transport puts
\* frames into the channel while the callback looks at it and sets the timer:
\* the kick is still to come, the callback is running, or the timer is armed
\* for the frame that is kept at the latest.
NothingForgotten ==
    controller = "up" =>
        /\ chan # <<>> /\ pending = <<>> => rxcb \/ sub = <<"kick">> \/ rx_timer = 0
        /\ pending # <<>> => rxcb \/ rx_timer <= pending[1].v
        /\ cycle_timer # Never

\* Frames are handled in the order in which they came, each once and none before
\* its time, although one of them is kept outside of the channel.  It is the order
\* of arrival and not that of time: a frame waits behind one that came before it
\* and is due later.
TakenInOrder ==
    /\ controller = "up" => came = taken \o pending \o chan
    /\ \A i \in DOMAIN taken : taken[i].v <= now
=============================================================================
