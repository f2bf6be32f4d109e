------------------------------- MODULE Lpuart -------------------------------
(***************************************************************************)
(* The LPUART of the S32K144 with its LIN frames: registers as the guest   *)
(* reads and writes them, the transmit FIFO and its timer, received frames *)
(* in a channel and a heap until their time, and the interrupt line.  All  *)
(* of it runs with the big lock.                                           *)
(***************************************************************************)
EXTENDS Integers, Sequences, FiniteSets, FiniteSetsExt

CONSTANTS
    LinFrames,  \* frames of the bus: [v |-> time, type |-> "Break" or "Data", n |-> bytes]
    MaxTime,    \* bound of the virtual clock
    MaxWrites,  \* bound: bytes the guest sends
    TxFifo,     \* size of tx_fifo (4096 in the code)
    RxFifo      \* MAX_RX_FIFO

VARIABLES
    rust_state,      \* "null", "up", "gone"
    now, onway,      \* the virtual clock; frames that have not arrived
    stat, ctrl, baud, \* the flags that are set in the registers
    rx_buffer,       \* number of bytes in it
    tx_fifo, tx_timer,
    chan, heap, rx_timer, earliest,
    irq,
    written, sent,   \* bytes written so far, and history: what went to the bus
    just_reset,      \* history: reset, and nothing sent since
    stranded         \* history: frames that were in the heap at a reset

lvars == <<rust_state, now, onway, stat, ctrl, baud, rx_buffer, tx_fifo, tx_timer, chan, heap,
           rx_timer, earliest, irq, written, sent, just_reset, stranded>>

Never == MaxTime + 2
CtrlFlags == {"TIE", "TCIE", "RIE", "TE", "RE", "SBK"}
BaudFlags == {"LBKDIE", "LBKDE"}
BaudAtReset == {"LBKDE"} \* of 0x0F000004

LInit ==
    /\ rust_state = "null" /\ now = 0 /\ onway = LinFrames
    /\ stat = {"TDRE", "TC"} /\ ctrl = {} /\ baud = BaudAtReset
    /\ rx_buffer = 0 /\ tx_fifo = <<>> /\ tx_timer = Never
    /\ chan = {} /\ heap = {} /\ rx_timer = Never /\ earliest = Never
    /\ irq = FALSE /\ written = 0 /\ sent = <<>> /\ just_reset = FALSE /\ stranded = {}

-----------------------------------------------------------------------------
\* Plausible slips, used to test the properties.

\* The end of a transmission does not raise the interrupt.
TxDoneQuiet ==
    IF Len(tx_fifo) = 1
    THEN stat' = stat \cup {"TC", "TDRE"} /\ tx_timer' = Never /\ UNCHANGED irq
    ELSE UNCHANGED <<stat, irq>> /\ tx_timer' = now + 1

\* earliest_vtime is left at the frame that has been handed over.
KeepEarliest(v) == UNCHANGED earliest

-----------------------------------------------------------------------------
\* update_irqs.
Pending(s, c, b) ==
    \/ "TIE" \in c /\ "TDRE" \in s
    \/ "TCIE" \in c /\ "TC" \in s
    \/ "RIE" \in c /\ "RDRF" \in s
    \/ "LBKDIE" \in b /\ "LBKDIF" \in s

\* lpuart_realize, lpuart_init_internal; lpuart_instance_finalize.
Realize ==
    /\ rust_state = "null"
    /\ rust_state' \in {"up", "gone"}
    /\ UNCHANGED <<now, onway, stat, ctrl, baud, rx_buffer, tx_fifo, tx_timer, chan, heap, rx_timer,
                   earliest, irq, written, sent, just_reset, stranded>>
Finalize ==
    /\ rust_state = "up"
    /\ rust_state' = "gone"
    /\ chan' = {} /\ heap' = {} /\ tx_fifo' = <<>> /\ tx_timer' = Never /\ rx_timer' = Never
    /\ UNCHANGED <<now, onway, stat, ctrl, baud, rx_buffer, earliest, irq, written, sent, just_reset,
                   stranded>>

\* lpuart_read of DATA: the interrupt line is not looked at.
ReadData ==
    /\ rust_state = "up" /\ rx_buffer > 0
    /\ rx_buffer' = rx_buffer - 1
    /\ stat' = IF rx_buffer = 1 THEN stat \ {"RDRF"} ELSE stat
    /\ UNCHANGED <<rust_state, now, onway, ctrl, baud, tx_fifo, tx_timer, chan, heap, rx_timer,
                   earliest, irq, written, sent, just_reset, stranded>>

\* lpuart_write: BAUD; STAT, which clears flags written as one; CTRL, where a
\* rising SBK sends a break.
WriteBaud(b) ==
    /\ rust_state = "up" /\ baud' = b
    /\ UNCHANGED <<rust_state, now, onway, stat, ctrl, rx_buffer, tx_fifo, tx_timer, chan, heap,
                   rx_timer, earliest, irq, written, sent, just_reset, stranded>>
WriteStat(s) ==
    /\ rust_state = "up" /\ stat' = stat \ (s \cap {"LBKDIF", "OR"})
    /\ UNCHANGED <<rust_state, now, onway, ctrl, baud, rx_buffer, tx_fifo, tx_timer, chan, heap,
                   rx_timer, earliest, irq, written, sent, just_reset, stranded>>
WriteCtrl(c) ==
    /\ rust_state = "up"
    /\ ctrl' = c
    /\ IF "SBK" \in c \ ctrl /\ written < MaxWrites
       THEN written' = written + 1 /\ sent' = Append(sent, <<"Break", written + 1>>)
       ELSE "SBK" \notin c \ ctrl /\ UNCHANGED <<written, sent>>
    /\ irq' = Pending(stat, c, baud)
    /\ UNCHANGED <<rust_state, now, onway, stat, baud, rx_buffer, tx_fifo, tx_timer, chan, heap,
                   rx_timer, earliest, just_reset, stranded>>

\* lpuart_write of DATA: one byte to the FIFO, the first one starts the timer.
WriteData ==
    /\ rust_state = "up" /\ "TE" \in ctrl /\ written < MaxWrites
    /\ written' = written + 1
    /\ tx_fifo' = IF Len(tx_fifo) < TxFifo THEN Append(tx_fifo, written + 1) ELSE tx_fifo
    /\ stat' = stat \ {"TC", "TDRE"}
    /\ irq' = Pending(stat \ {"TC", "TDRE"}, ctrl, baud)
    /\ tx_timer' = IF tx_fifo = <<>> THEN now + 1 ELSE tx_timer
    /\ just_reset' = FALSE
    /\ UNCHANGED <<rust_state, now, onway, ctrl, baud, rx_buffer, chan, heap, rx_timer, earliest,
                   sent, stranded>>

\* lpuart_tx_timer_cb: one byte to the bus; after the last the transmitter is idle.
TxDone ==
    IF Len(tx_fifo) = 1
    THEN /\ stat' = stat \cup {"TC", "TDRE"} /\ tx_timer' = Never
         /\ irq' = Pending(stat \cup {"TC", "TDRE"}, ctrl, baud)
    ELSE UNCHANGED <<stat, irq>> /\ tx_timer' = now + 1
TxTimer ==
    /\ rust_state = "up" /\ tx_timer <= now
    /\ tx_fifo' = Tail(tx_fifo) /\ sent' = Append(sent, <<"Data", Head(tx_fifo)>>)
    /\ TxDone
    /\ UNCHANGED <<rust_state, now, onway, ctrl, baud, rx_buffer, chan, heap, rx_timer, earliest,
                   written, just_reset, stranded>>

\* The callback of the subscription.
OnLinFrame(f) ==
    /\ rust_state = "up" /\ f \in onway
    /\ onway' = onway \ {f} /\ chan' = chan \cup {f}
    /\ earliest' = IF f.v < earliest THEN f.v ELSE earliest
    /\ rx_timer' = IF f.v < earliest THEN f.v ELSE rx_timer
    /\ UNCHANGED <<rust_state, now, stat, ctrl, baud, rx_buffer, tx_fifo, tx_timer, heap, irq,
                   written, sent, just_reset, stranded>>

NoteEarliest(v) == earliest' = v

\* lpuart_rx_timer_cb.  Frames of one time come out of the heap in any order;
\* which flags they leave does not depend on it.
RxTimer ==
    /\ rust_state = "up" /\ rx_timer <= now
    /\ LET all   == heap \cup chan
           due   == {f \in all : f.v <= now}
           rest  == all \ due
           bytes == IF "RE" \in ctrl
                    THEN FoldSet(LAMBDA f, acc : IF f.type = "Data" THEN f.n + acc ELSE acc, 0, due)
                    ELSE 0
           next  == IF rest = {} THEN Never ELSE Min({f.v : f \in rest})
       IN  /\ chan' = {} /\ heap' = rest
           /\ rx_buffer' = Min({RxFifo, rx_buffer + bytes})
           /\ stat' = stat \cup (IF rx_buffer + bytes > 0 THEN {"RDRF"} ELSE {})
                           \cup (IF rx_buffer + bytes > RxFifo THEN {"OR"} ELSE {})
                           \cup (IF "LBKDE" \in baud /\ \E f \in due : f.type = "Break"
                                 THEN {"LBKDIF"} ELSE {})
           /\ irq' = Pending(stat', ctrl, baud)
           /\ NoteEarliest(next) /\ rx_timer' = next
    /\ UNCHANGED <<rust_state, now, onway, ctrl, baud, tx_fifo, tx_timer, written, sent, just_reset,
                   stranded>>

\* lpuart_reset: STAT becomes 0xC0000000, which has LBKDIF and neither TDRE nor TC;
\* the heap, the channel and the interrupt line are left as they are.
Reset ==
    /\ rust_state = "up"
    /\ stat' = {"LBKDIF"} /\ ctrl' = {} /\ baud' = BaudAtReset
    /\ rx_buffer' = 0 /\ tx_fifo' = <<>>
    /\ rx_timer' = Never /\ tx_timer' = Never /\ earliest' = Never
    /\ just_reset' = TRUE /\ stranded' = stranded \cup heap \cup chan
    /\ UNCHANGED <<rust_state, now, onway, chan, heap, irq, written, sent>>

Tick ==
    /\ now < MaxTime /\ tx_timer > now /\ rx_timer > now
    /\ now' = now + 1
    /\ UNCHANGED <<rust_state, onway, stat, ctrl, baud, rx_buffer, tx_fifo, tx_timer, chan, heap,
                   rx_timer, earliest, irq, written, sent, just_reset, stranded>>

LNext ==
    \/ Realize \/ Finalize \/ ReadData \/ WriteData \/ TxTimer \/ RxTimer \/ Reset \/ Tick
    \/ \E b \in {{}, {"LBKDE"}, BaudFlags} : WriteBaud(b)
    \/ WriteStat({"LBKDIF", "OR", "RDRF"})
    \/ \E c \in {{}, {"TE", "RE"}, CtrlFlags \ {"SBK"}, CtrlFlags} : WriteCtrl(c)
    \/ \E f \in LinFrames : OnLinFrame(f)

LSpec == LInit /\ [][LNext]_lvars

-----------------------------------------------------------------------------
\* A flag whose interrupt is enabled holds the line up, whoever set it (timer,
\* frame, register access) and in whatever order flag and enable came; and the
\* flags tell the truth about the FIFOs.  (The line may stay up longer: reading
\* DATA does not lower it.  LBKDIE, which a write of BAUD enables without a look
\* at the line, and the flags after a reset are left out.)
InterruptFollowsFlags ==
    rust_state = "up" =>
        /\ ~just_reset => (Pending(stat, ctrl, {}) => irq)
        /\ ("RDRF" \in stat) = (rx_buffer > 0)
        /\ ~just_reset => (("TDRE" \in stat) = (tx_fifo = <<>>))

\* Bytes in the FIFO have the transmit timer, frames in the channel and the heap
\* the receive timer, armed for the first of them, unless a reset stopped it.
NothingForgotten ==
    rust_state = "up" =>
        /\ tx_fifo # <<>> => tx_timer # Never
        /\ chan \cup heap \subseteq stranded \/ rx_timer <= Max({now, Min({f.v : f \in (chan \cup heap) \ stranded})})
=============================================================================
